---- MODULE Spec2Model ----
(***************************************************************************)
(* slack-to-jira: a Slack thread URL is parsed, the thread is fetched page *)
(* by page, its messages are rendered into a transcript, a completion API  *)
(* turns the transcript into an issue draft, and the draft is created on   *)
(* the Jira tracker (or only reported, in a dry run).                      *)
(*                                                                         *)
(* Strings are sequences of tokens: a token is one character or one        *)
(* indivisible piece of text, concatenation is \o, s[:n] is Take(s, n).    *)
(* Python dicts are functions on the set of their keys.                    *)
(***************************************************************************)
EXTENDS Integers, Sequences, FiniteSets, TLC

(***************************************************************************)
(* Bounds of the model.                                                    *)
(***************************************************************************)
\* longest URL path (in tokens) the parser is run on
MaxPathLen == 6
\* most messages the Slack server holds for a thread
MaxThread == 3
\* most messages of one conversations.replies page
MaxPageLen == 2
\* most conversations.replies requests of one fetch
MaxPages == 3
\* most messages given to one format_messages call
MaxFormat == 3
\* most messages the Slack server holds for the thread of a whole run
MaxRunThread == 1
\* most digits of the message id of a URL
MaxDigits == 8

(***************************************************************************)
(* Program constants.                                                      *)
(***************************************************************************)
\* slack_client.py: "limit": 100 of conversations.replies
PageLimit == 100
\* slack_client.py: len(ts) > 6 and ts[:-6] / ts[-6:]
MicroDigits == 6
\* ai_analyzer.py: thread_content[:4000]
ContentLimit == 4000
\* ai_analyzer.py: lines[0][:80]
FirstLineLimit == 80
\* jira_client.py: title[:255]
SummaryLimit == 255
\* converter.py: thread_content[:5000]
DescriptionLimit == 5000
\* ai_analyzer.py: response.status_code != 200
StatusOk == 200

\* Python's None where a string may stand: a string no program text equals
None == <<"None">>

(***************************************************************************)
(* Python's str and dict operations.                                       *)
(***************************************************************************)
Min(a, b) == IF a < b THEN a ELSE b

\* s[:n]
Take(s, n) == SubSeq(s, 1, Min(Len(s), n))

\* s[n:] for n >= 0 (n tokens dropped from the front)
Drop(s, n) == SubSeq(s, Min(Len(s), n) + 1, Len(s))

\* s[-n:] for n > 0
Last(s, n) == SubSeq(s, Len(s) - Min(Len(s), n) + 1, Len(s))

\* s[:-n] for n > 0
ButLast(s, n) == SubSeq(s, 1, Len(s) - Min(Len(s), n))

\* tok in s, for a one-token tok
Contains(s, tok) == \E i \in 1..Len(s) : s[i] = tok

\* sub in s
InStr(sub, s) ==
    \E i \in 1..(Len(s) - Len(sub) + 1) : SubSeq(s, i, i + Len(sub) - 1) = sub

\* s.startswith(prefix)
StartsWith(s, prefix) ==
    Len(s) >= Len(prefix) /\ SubSeq(s, 1, Len(prefix)) = prefix

RECURSIVE LStrip(_, _)
LStrip(s, chars) ==
    IF Len(s) > 0 /\ s[1] \in chars THEN LStrip(Tail(s), chars) ELSE s

RECURSIVE RStrip(_, _)
RStrip(s, chars) ==
    IF Len(s) > 0 /\ s[Len(s)] \in chars
    THEN RStrip(SubSeq(s, 1, Len(s) - 1), chars)
    ELSE s

\* s.strip(chars)
Strip(s, chars) == RStrip(LStrip(s, chars), chars)

\* s.split(sep): the pieces between the separators, empty pieces kept
RECURSIVE Split(_, _)
Split(s, sep) ==
    IF ~Contains(s, sep)
    THEN <<s>>
    ELSE LET i == CHOOSE k \in 1..Len(s) :
                      s[k] = sep /\ \A j \in 1..(k - 1) : s[j] # sep
         IN  <<SubSeq(s, 1, i - 1)>> \o Split(SubSeq(s, i + 1, Len(s)), sep)

\* {}
EmptyDict == [k \in {} |-> None]

\* d.get(k, default)
Get(d, k, default) == IF k \in DOMAIN d THEN d[k] ELSE default

\* bool(x) of a string or None
Truthy(x) == x # None /\ x # <<>>

\* a or b
Or(a, b) == IF Truthy(a) THEN a ELSE b

\* an exception: its type and its message; NoError when none was raised
Exception(type, msg) == [type |-> type, msg |-> msg]

NoError == Exception("None", <<>>)

\* how a call ends: it returns a value or raises
Return(v) == [raised |-> NoError, value |-> v]

Raise(e) == [raised |-> e, value |-> None]

\* every sequence over S of length at most n
SeqsUpTo(S, n) == UNION {[1..k -> S] : k \in 0..n}

VARIABLES
    pc,             \* where the run is
    slack_url,      \* process / parse_slack_url argument: [path, query]
    project_key,    \* process argument (None: the configured project)
    issue_type,     \* process argument (None: the draft's type)
    dry_run,        \* process argument
    parsed,         \* parse_slack_url's return value, None before it
    channel_name,   \* process local
    channel_log,    \* the conversations.info responses received
    thread,         \* the Slack server's messages of the thread
    messages,       \* get_thread_messages local, then process local
    cursor,         \* get_thread_messages local
    replies_log,    \* the conversations.replies exchanges so far
    history_log,    \* the conversations.history exchanges so far
    formatted,      \* format_messages local
    user_cache,     \* format_messages local
    users_log,      \* the users.info lookups so far
    thread_content, \* process local
    analysis,       \* process local: the draft
    completion_log, \* the completion API exchanges so far
    issues,         \* the issues on the tracker
    jira_log,       \* the tracker calls so far
    result,         \* the value returned, None before it
    error           \* the exception raised, None when none

vars == <<pc, slack_url, project_key, issue_type, dry_run, parsed, channel_name,
          channel_log, thread, messages, cursor, replies_log, history_log, formatted,
          user_cache, users_log, thread_content, analysis, completion_log,
          issues, jira_log, result, error>>

(***************************************************************************)
(* Configuration (config.py), as _validate_config lets a run start with.   *)
(***************************************************************************)
JIRA_PROJECT_KEY == <<"SAT">>

JIRA_ISSUE_TYPE == <<"Task">>

(***************************************************************************)
(* SlackClient.parse_slack_url                                             *)
(*                                                                         *)
(* A path is a string over "/" and the tokens of its components; a query   *)
(* is a string over "&", "=" and the tokens of its parameters.             *)
(***************************************************************************)
PathTokens == {"/", "archives", "p", "7"}

Paths == SeqsUpTo(PathTokens, MaxPathLen)

Queries ==
    { <<>>,
      <<"thread_ts", "=", "9", ".", "9">>,
      <<"x", "=", "1", "&", "thread_ts", "=", "8", "=", "7">> }

NoParse == [channel_id |-> None, thread_ts |-> None, query_thread_ts |-> None]

\* the loop over parsed.query.split('&'): the first thread_ts= parameter
RECURSIVE QueryThreadTs(_)
QueryThreadTs(params) ==
    IF params = <<>>
    THEN None
    ELSE IF StartsWith(Head(params), <<"thread_ts", "=">>)
         THEN Split(Head(params), "=")[2]
         ELSE QueryThreadTs(Tail(params))

\* the mutant: an id of exactly six digits gets a decimal point too
ThreadTsFromSix(message_id) ==
    IF StartsWith(message_id, <<"p">>)
    THEN LET ts == Drop(message_id, 1)
         IN  IF Len(ts) >= MicroDigits
             THEN ButLast(ts, MicroDigits) \o <<".">> \o Last(ts, MicroDigits)
             ELSE ts
    ELSE message_id

\* message id (p1234567890123456) to timestamp (1234567890.123456)
ThreadTs(message_id) ==
    IF StartsWith(message_id, <<"p">>)
    THEN LET ts == Drop(message_id, 1)
         IN  IF Len(ts) > MicroDigits
             THEN ButLast(ts, MicroDigits) \o <<".">> \o Last(ts, MicroDigits)
             ELSE ts
    ELSE message_id

\* len(path_parts) < 3 or path_parts[0] != 'archives'
MalformedPath(path_parts) ==
    Len(path_parts) < 3 \/ path_parts[1] # <<"archives">>

parse_slack_url(url) ==
    LET path_parts == Split(Strip(url.path, {"/"}), "/")
    IN  IF MalformedPath(path_parts)
        THEN Raise(Exception("ValueError", <<"Invalid Slack URL format">>))
        ELSE Return([channel_id |-> path_parts[2],
                     thread_ts |-> ThreadTs(path_parts[3]),
                     query_thread_ts |->
                         IF url.query # <<>>
                         THEN QueryThreadTs(Split(url.query, "&"))
                         ELSE None])

(***************************************************************************)
(* The state a run starts in, but for its inputs.                          *)
(***************************************************************************)
InitAfterParse ==
    /\ channel_name = None
    /\ channel_log = <<>>
    /\ messages = <<>>
    /\ cursor = None
    /\ replies_log = <<>>
    /\ history_log = <<>>
    /\ formatted = <<>>
    /\ user_cache = EmptyDict
    /\ users_log = <<>>
    /\ thread_content = None
    /\ analysis = EmptyDict
    /\ completion_log = <<>>
    /\ issues = <<>>
    /\ jira_log = <<>>
    /\ result = EmptyDict
    /\ error = NoError

InitLocals ==
    /\ parsed = NoParse
    /\ InitAfterParse

\* the state get_thread_messages is called in
InitFetchLocals ==
    /\ parsed = parse_slack_url(slack_url).value
    /\ InitAfterParse

\* process, "Parse Slack URL": channel_id, thread_ts, _ = parse_slack_url(..)
ParseUrl ==
    /\ pc = "parse"
    /\ LET r == parse_slack_url(slack_url)
       IN  IF r.raised # NoError
           THEN /\ error' = r.raised
                /\ pc' = "failed"
                /\ UNCHANGED parsed
           ELSE /\ parsed' = r.value
                /\ pc' = "channel"
                /\ UNCHANGED error
    /\ UNCHANGED <<slack_url, project_key, issue_type, dry_run, channel_name,
                   channel_log, thread, messages, cursor, replies_log, history_log,
                   formatted, user_cache, users_log, thread_content, analysis,
                   completion_log, issues, jira_log, result>>

(***************************************************************************)
(* The Slack server.  A message of the thread is a dict with its "ts"      *)
(* (seconds, as float() reads it), its "text" (attachment and file notes   *)
(* included) and, unless the author is unknown, its "user".                *)
(***************************************************************************)
Message(i, user, text) ==
    IF user = None
    THEN [ts |-> 30 * i, text |-> text]
    ELSE [ts |-> 30 * i, text |-> text, user |-> user]

\* the threads of at most n messages with authors and texts from the given sets
Threads(n, users, texts) ==
    { [i \in 1..Len(a) |-> Message(i, a[i][1], a[i][2])] :
        a \in UNION {[1..k -> users \X texts] : k \in 0..n} }

Cursors == {<<"c1">>, <<"c2">>}

\* the messages the replies so far have served
RECURSIVE Served(_)
Served(log) ==
    IF log = <<>>
    THEN <<>>
    ELSE Served(SubSeq(log, 1, Len(log) - 1))
             \o Get(log[Len(log)].response, "messages", <<>>)

\* what conversations.replies may answer: the next messages of the thread
\* with or without a cursor (the last request allowed gets none), or an error
RepliesResponses ==
    LET sent == Len(Served(replies_log))
        pages == { SubSeq(thread, sent + 1, sent + k) :
                     k \in 0..Min(MaxPageLen, Len(thread) - sent) }
        more == IF Len(replies_log) + 1 < MaxPages THEN Cursors ELSE {}
    IN  { [ok |-> TRUE, messages |-> m] : m \in pages }
        \cup { [ok |-> TRUE, messages |-> m,
                response_metadata |-> [next_cursor |-> c]] :
                 m \in pages, c \in more \cup {<<>>} }
        \cup { [ok |-> FALSE, error |-> e] :
                 e \in {<<"thread_not_found">>, <<"channel_not_found">>} }
        \cup { [ok |-> FALSE] }

\* what conversations.history may answer: the one message, none, or an error
HistoryResponses ==
    { [ok |-> TRUE, messages |-> m] :
        m \in {<<>>} \cup {<<thread[i]>> : i \in {1} \cap DOMAIN thread} }
    \cup { [ok |-> TRUE] }
    \cup { [ok |-> FALSE, error |-> <<"channel_not_found">>] }

(***************************************************************************)
(* SlackClient.get_thread_messages and _get_single_message                 *)
(***************************************************************************)
\* params of conversations.replies, with the cursor when there is one
RepliesParams(channel_id, thread_ts, cur) ==
    IF Truthy(cur)
    THEN [channel |-> channel_id, ts |-> thread_ts, limit |-> PageLimit,
          cursor |-> cur]
    ELSE [channel |-> channel_id, ts |-> thread_ts, limit |-> PageLimit]

\* the mutant: the page replaces what was accumulated
ExtendReplacing(msgs, data) == Get(data, "messages", <<>>)

\* messages.extend(data.get("messages", []))
Extend(msgs, data) == msgs \o Get(data, "messages", <<>>)

\* the mutant: the cursor is looked for in the response itself
NextCursorTopLevel(data) == Get(data, "next_cursor", None)

\* data.get("response_metadata", {}).get("next_cursor")
NextCursor(data) ==
    Get(Get(data, "response_metadata", EmptyDict), "next_cursor", None)

\* the mutant: the error code is compared with another one
ThreadNotFoundOtherCode(data) ==
    Get(data, "error", None) = <<"message_not_found">>

\* data.get("error") == "thread_not_found"
ThreadNotFound(data) == Get(data, "error", None) = <<"thread_not_found">>

\* params of conversations.history
HistoryParams(channel_id, ts) ==
    [channel |-> channel_id, latest |-> ts, oldest |-> ts,
     inclusive |-> <<"true">>, limit |-> 1]

\* one turn of the while loop: a request and what is done with its response
RepliesPage ==
    /\ pc = "replies"
    /\ Len(replies_log) < MaxPages
    /\ \E data \in RepliesResponses :
          /\ replies_log' = Append(replies_log,
                 [request |-> RepliesParams(parsed.channel_id,
                                            parsed.thread_ts, cursor),
                  response |-> data])
          /\ IF ~Get(data, "ok", FALSE)
             THEN /\ UNCHANGED <<messages, cursor>>
                  /\ IF ThreadNotFound(data)
                     THEN /\ pc' = "history"
                          /\ UNCHANGED error
                     ELSE /\ pc' = "failed"
                          /\ error' = Exception("Exception",
                                 <<"Failed to fetch thread: ">>
                                     \o Get(data, "error", <<"Unknown error">>))
             ELSE /\ messages' = Extend(messages, data)
                  /\ cursor' = NextCursor(data)
                  /\ pc' = IF Truthy(NextCursor(data)) THEN "replies"
                                                       ELSE "fetched"
                  /\ UNCHANGED error
    /\ UNCHANGED <<slack_url, project_key, issue_type, dry_run, parsed,
                   channel_name, channel_log,
                   thread, history_log, formatted, user_cache,
                   users_log, thread_content, analysis, completion_log,
                   issues, jira_log, result>>

\* return self._get_single_message(channel_id, thread_ts)
SingleMessage ==
    /\ pc = "history"
    /\ \E data \in HistoryResponses :
          /\ history_log' = Append(history_log,
                 [request |-> HistoryParams(parsed.channel_id, parsed.thread_ts),
                  response |-> data])
          /\ IF ~Get(data, "ok", FALSE)
             THEN /\ pc' = "failed"
                  /\ error' = Exception("Exception",
                         <<"Failed to fetch message: ">>
                             \o Get(data, "error", <<"Unknown error">>))
                  /\ UNCHANGED messages
             ELSE /\ messages' = Get(data, "messages", <<>>)
                  /\ pc' = "fetched"
                  /\ UNCHANGED error
    /\ UNCHANGED <<slack_url, project_key, issue_type, dry_run, parsed,
                   channel_name, channel_log,
                   thread, cursor, replies_log, formatted,
                   user_cache, users_log, thread_content, analysis,
                   completion_log, issues, jira_log, result>>

(***************************************************************************)
(* get_thread_messages alone, on every thread within the bound.            *)
(***************************************************************************)
InitFetch ==
    /\ pc = "replies"
    /\ slack_url = [path |-> <<"/", "archives", "/", "7", "/", "p", "7">>,
                    query |-> <<>>]
    /\ project_key = None
    /\ issue_type = None
    /\ dry_run = FALSE
    /\ thread \in Threads(MaxThread, {<<"U1">>}, {<<"hi">>})
    /\ InitFetchLocals

NextFetch == RepliesPage \/ SingleMessage

SpecFetch == InitFetch /\ [][NextFetch]_vars

\* the same, every request being answered and the call running on: the
\* statements of get_thread_messages follow one another in one thread
SpecFetchFair == InitFetch /\ [][NextFetch]_vars /\ WF_vars(NextFetch)

(***************************************************************************)
(* SlackClient.get_user_info and format_messages                           *)
(***************************************************************************)
\* what users.info may answer for a user
UsersResponses ==
    { [ok |-> FALSE, error |-> <<"user_not_found">>],
      [ok |-> TRUE],
      [ok |-> TRUE, user |-> EmptyDict],
      [ok |-> TRUE, user |-> [name |-> <<"ann">>]],
      [ok |-> TRUE, user |-> [name |-> <<"ann">>, real_name |-> <<"Ann">>]],
      [ok |-> TRUE, user |-> [name |-> <<"bob">>, real_name |-> <<"Bob">>]] }

\* get_user_info, given the response to its users.info request
get_user_info(user_id, data) ==
    IF ~Get(data, "ok", FALSE)
    THEN [name |-> user_id, real_name |-> user_id]
    ELSE LET user == Get(data, "user", EmptyDict)
         IN  [name |-> Get(user, "name", user_id),
              real_name |-> Get(user, "real_name", Get(user, "name", user_id))]

\* msg.get("user", "Unknown")
UserId(msg) == Get(msg, "user", <<"Unknown">>)

\* the mutant: every message is looked up
NotCachedEver(cache, user_id) == TRUE

\* user_id not in user_cache
NotCached(cache, user_id) == user_id \notin DOMAIN cache

\* timestamp.strftime('%Y-%m-%d %H:%M'): the minute the message was sent in
Strftime(ts) == <<ToString(ts \div 60)>>

\* f"[{timestamp...}] {user_name}:\n{text}\n"
Block(msg, user_name) ==
    <<"[">> \o Strftime(Get(msg, "ts", 0)) \o <<"] ">> \o user_name
        \o <<":", "\n">> \o Get(msg, "text", <<>>) \o <<"\n">>

\* sep.join(parts)
RECURSIVE Join(_, _)
Join(parts, sep) ==
    IF parts = <<>>
    THEN <<>>
    ELSE IF Len(parts) = 1
         THEN parts[1]
         ELSE parts[1] \o sep \o Join(Tail(parts), sep)

\* one turn of the for loop: the next message, its author looked up unless
\* cached, and its block appended
FormatMessage ==
    /\ pc = "format"
    /\ Len(formatted) < Len(messages)
    /\ LET msg == messages[Len(formatted) + 1]
           user_id == UserId(msg)
       IN  /\ IF NotCached(user_cache, user_id)
              THEN \E data \in UsersResponses :
                      /\ user_cache' = [u \in DOMAIN user_cache \cup {user_id} |->
                             IF u = user_id THEN get_user_info(user_id, data)
                                            ELSE user_cache[u]]
                      /\ users_log' = Append(users_log,
                             [user |-> user_id,
                              info |-> get_user_info(user_id, data)])
              ELSE UNCHANGED <<user_cache, users_log>>
           /\ formatted' = Append(formatted,
                  Block(msg, Get(user_cache'[user_id], "real_name", user_id)))
    /\ UNCHANGED <<pc, slack_url, project_key, issue_type, dry_run, parsed,
                   channel_name, channel_log,
                   thread, messages, cursor, replies_log,
                   history_log, thread_content, analysis, completion_log,
                   issues, jira_log, result, error>>

\* return "\n".join(formatted)
FormatJoin ==
    /\ pc = "format"
    /\ Len(formatted) = Len(messages)
    /\ thread_content' = Join(formatted, <<"\n">>)
    /\ pc' = "analyze"
    /\ UNCHANGED <<slack_url, project_key, issue_type, dry_run, parsed,
                   channel_name, channel_log,
                   thread, messages, cursor, replies_log,
                   history_log, formatted, user_cache, users_log, analysis,
                   completion_log, issues, jira_log, result, error>>

(***************************************************************************)
(* format_messages alone, on every message list within the bound.          *)
(***************************************************************************)
InitFormat ==
    /\ pc = "format"
    /\ slack_url = [path |-> <<"/", "archives", "/", "7", "/", "p", "7">>,
                    query |-> <<>>]
    /\ project_key = None
    /\ issue_type = None
    /\ dry_run = FALSE
    /\ thread = <<>>
    /\ parsed = parse_slack_url(slack_url).value
    /\ channel_name = <<"general">>
    /\ channel_log = <<>>
    /\ messages \in Threads(MaxFormat, {<<"U1">>, <<"U2">>, None},
                            {<<"hi">>, <<"yo">>})
    /\ cursor = None
    /\ replies_log = <<>>
    /\ history_log = <<>>
    /\ formatted = <<>>
    /\ user_cache = EmptyDict
    /\ users_log = <<>>
    /\ thread_content = None
    /\ analysis = EmptyDict
    /\ completion_log = <<>>
    /\ issues = <<>>
    /\ jira_log = <<>>
    /\ result = EmptyDict
    /\ error = NoError

NextFormat == FormatMessage \/ FormatJoin

SpecFormat == InitFormat /\ [][NextFormat]_vars

(***************************************************************************)
(* The completion API.  A response has a status code, a text and, when the *)
(* text is JSON, the value response.json() gives.  The model's own text    *)
(* (choices[0].message.content) is a string over the fence marks, the      *)
(* braces, the members of a JSON object and other text.                    *)
(***************************************************************************)
\* the code fence marks, three backquotes with and without the word json
FenceJson == "FENCEjson"

Fence == "FENCE"

TitleMember == "\"title\": \"Login fails\""

SummaryMember == "\"summary\": \"Users cannot log in\""

TypeMember == "\"issue_type\": \"Bug\""

PriorityMember == "\"priority\": \"Critical\""

JsonMembers == {TitleMember, SummaryMember, TypeMember, PriorityMember}

MemberKey(tok) ==
    CASE tok = TitleMember -> "title"
      [] tok = SummaryMember -> "summary"
      [] tok = TypeMember -> "issue_type"
      [] tok = PriorityMember -> "priority"

MemberValue(tok) ==
    CASE tok = TitleMember -> <<"Login fails">>
      [] tok = SummaryMember -> <<"Users cannot log in">>
      [] tok = TypeMember -> <<"Bug">>
      [] tok = PriorityMember -> <<"Critical">>

FullObject ==
    <<"{", TitleMember, SummaryMember, TypeMember, PriorityMember, "}">>

\* the texts a model may answer with
ModelTexts ==
    { FullObject,
      <<FenceJson, "\n">> \o FullObject \o <<"\n", Fence>>,
      <<"Here is the issue: ">> \o FullObject \o <<" Hope it helps">>,
      <<"{", TitleMember, SummaryMember, "}">>,
      <<"{", TitleMember, TypeMember, PriorityMember, "}">>,
      <<"{", SummaryMember, "}">>,
      <<"{", "}">>,
      <<"{", TitleMember, SummaryMember>>,
      <<"{", "title: Login fails", "}">>,
      <<"{", TitleMember, SummaryMember, "}", " or ", "{", TitleMember, "}">>,
      <<"I cannot help with that">>,
      <<>> }

\* the body of a completion whose model text is content
Completion(content) == [choices |-> <<[message |-> [content |-> content]]>>]

\* what the completion endpoint may answer
CompletionResponses ==
    { [status_code |-> StatusOk, text |-> <<"json">>, json |-> Completion(t)] :
        t \in ModelTexts }
    \cup
    { [status_code |-> StatusOk, text |-> <<"json">>, json |-> Completion(None)],
      [status_code |-> StatusOk, text |-> <<"json">>,
       json |-> [choices |-> <<>>]],
      [status_code |-> StatusOk, text |-> <<"json">>,
       json |-> [error |-> [message |-> <<"model overloaded">>]]],
      [status_code |-> StatusOk, text |-> <<"<html>Bad gateway</html>">>],
      [status_code |-> 201, text |-> <<"json">>, json |-> Completion(FullObject)],
      [status_code |-> 429, text |-> <<"json">>,
       json |-> [error |-> [message |-> <<"rate limit">>]]],
      [status_code |-> 500, text |-> <<"json">>, json |-> [error |-> EmptyDict]],
      [status_code |-> 502, text |-> <<"<html>Bad gateway</html>">>] }

(***************************************************************************)
(* GroqAnalyzer.analyze_thread and _fallback_analysis                      *)
(***************************************************************************)
Whitespace == {" ", "\n", "\t"}

\* re.sub(fence + r'\s*', '', text)
RECURSIVE RemoveFence(_, _)
RemoveFence(text, fence) ==
    IF text = <<>>
    THEN <<>>
    ELSE IF Head(text) = fence
         THEN RemoveFence(LStrip(Tail(text), Whitespace), fence)
         ELSE <<Head(text)>> \o RemoveFence(Tail(text), fence)

\* re.search(r'\{[\s\S]*\}', cleaned): from the first { to the last }, or None
JsonMatch(cleaned) ==
    LET opens == {i \in 1..Len(cleaned) : cleaned[i] = "{"}
        first == CHOOSE i \in opens : \A j \in opens : i <= j
        closes == {i \in 1..Len(cleaned) : cleaned[i] = "}" /\ i > first}
        last == CHOOSE i \in closes : \A j \in closes : j <= i
    IN  IF opens = {} \/ closes = {} THEN None ELSE SubSeq(cleaned, first, last)

\* whether json.loads reads the match: an object of members and nothing else
JsonValid(match) ==
    \A i \in 2..(Len(match) - 1) : match[i] \in JsonMembers

\* json.loads(match) of a valid match (of two equal keys the last one counts)
JsonLoads(match) ==
    LET inner == SubSeq(match, 2, Len(match) - 1)
        keys == {MemberKey(inner[i]) : i \in 1..Len(inner)}
    IN  [k \in keys |->
            MemberValue(inner[CHOOSE i \in 1..Len(inner) :
                                  /\ MemberKey(inner[i]) = k
                                  /\ \A j \in (i + 1)..Len(inner) :
                                         MemberKey(inner[j]) # k])]

\* [l.strip() for l in lines if l.strip() and not l.startswith('[')]
RECURSIVE MeaningfulLines(_)
MeaningfulLines(lines) ==
    IF lines = <<>>
    THEN <<>>
    ELSE IF Strip(Head(lines), Whitespace) # <<>>
            /\ ~StartsWith(Head(lines), <<"[">>)
         THEN <<Strip(Head(lines), Whitespace)>> \o MeaningfulLines(Tail(lines))
         ELSE MeaningfulLines(Tail(lines))

_fallback_analysis(content) ==
    LET lines == MeaningfulLines(Split(content, "\n"))
        first_message == IF lines # <<>> THEN Take(lines[1], FirstLineLimit)
                                         ELSE <<"Slack Discussion">>
    IN  [title |-> <<"Issue from Slack: ">> \o first_message,
         summary |-> <<"h3. Slack Discussion", "\n", "\n">>
                         \o Take(content, ContentLimit)
                         \o <<"\n", "\n", "----", "\n",
                              "_Note: Auto-generated from Slack thread._">>,
         issue_type |-> <<"Task">>,
         priority |-> <<"Major">>]

\* the try block: the draft parsed out of the model's text, or the fallback
ExtractDraft(response_text, content) ==
    LET cleaned == RemoveFence(RemoveFence(response_text, FenceJson), Fence)
        json_match == JsonMatch(cleaned)
    IN  IF json_match # None /\ JsonValid(json_match)
           /\ "title" \in DOMAIN JsonLoads(json_match)
           /\ "summary" \in DOMAIN JsonLoads(json_match)
        THEN JsonLoads(json_match)
        ELSE _fallback_analysis(content)

\* the message of the error a non-200 response is reported with
GroqErrorMessage(response) ==
    IF "json" \in DOMAIN response /\ "error" \in DOMAIN response.json
    THEN Get(response.json.error, "message", response.text)
    ELSE response.text

\* analyze_thread, given the response to its request
analyze_thread(content, response) ==
    IF response.status_code # StatusOk
    THEN Raise(Exception("Exception",
             <<"Groq API error: ", ToString(response.status_code), " - ">>
                 \o GroqErrorMessage(response)))
    ELSE IF "json" \notin DOMAIN response
    THEN Raise(Exception("JSONDecodeError", <<"Expecting value">>))
    ELSE IF "choices" \notin DOMAIN response.json
    THEN Raise(Exception("KeyError", <<"choices">>))
    ELSE IF response.json.choices = <<>>
    THEN Raise(Exception("IndexError", <<"list index out of range">>))
    ELSE LET response_text == response.json.choices[1].message.content
         IN  IF response_text = None
             THEN Raise(Exception("TypeError",
                      <<"expected string or bytes-like object">>))
             ELSE Return(ExtractDraft(response_text, content))

(***************************************************************************)
(* The Jira tracker.  A call to it creates the issue (adds the comment)    *)
(* and returns, or raises and leaves the tracker as it was.                *)
(***************************************************************************)
JIRA_BASE_URL == <<"https://jira.example.com">>

\* the messages of the errors the tracker may raise
TrackerErrors ==
    { <<"Field 'summary' ", "cannot be set", ". It is ",
        "not on the appropriate screen", " or unknown.">>,
      <<"Field 'description' ", "cannot be set", ".">>,
      <<"You do not have permission to create issues in this project.">>,
      <<"HTTP 503 Service Unavailable">> }

\* the issue jira.create_issue(fields) adds to the tracker
NewIssue(fields) ==
    LET n == Len(issues) + 1
    IN  [key |-> fields.project.key \o <<"-", ToString(n)>>,
         id |-> <<ToString(10000 + n)>>,
         self |-> JIRA_BASE_URL \o <<"/rest/api/2/issue/", ToString(10000 + n)>>,
         fields |-> fields,
         comments |-> <<>>]

(***************************************************************************)
(* JiraClient.create_issue and _create_minimal_issue                       *)
(***************************************************************************)
\* the slack_url argument as a string
UrlString(url) ==
    <<"https://w.slack.com">> \o url.path
        \o (IF url.query # <<>> THEN <<"?">> \o url.query ELSE <<>>)

\* description = summary, plus the Slack reference
Description(summary, url) ==
    IF Truthy(url)
    THEN summary \o <<"\n", "\n", "----", "\n",
                      "*Source:* Created from Slack discussion: ">> \o url
    ELSE summary

\* issue_dict
FullFields(project, title, description, type) ==
    [project |-> [key |-> project],
     summary |-> Take(title, SummaryLimit),
     description |-> description,
     issuetype |-> [name |-> type]]

\* minimal_dict
MinimalFields(project, type) ==
    [project |-> [key |-> project], issuetype |-> [name |-> type]]

\* comment_text
CommentText(title, description, priority) ==
    <<"h3. ">> \o title \o <<"\n", "\n">> \o description
        \o (IF Truthy(priority)
            THEN <<"\n", "\n", "*Suggested Priority:* ">> \o priority
            ELSE <<>>)

\* the mutant: every failure of the full creation is taken for a restriction
FieldRestrictedAlways(error_msg) == TRUE

\* "cannot be set" in error_msg or "not on the appropriate screen" in error_msg
FieldRestricted(error_msg) ==
    \/ InStr(<<"cannot be set">>, error_msg)
    \/ InStr(<<"not on the appropriate screen">>, error_msg)

\* {"key": issue.key, "id": issue.id, "self": issue.self}
IssueRef(issue) == [key |-> issue.key, id |-> issue.id, self |-> issue.self]

(***************************************************************************)
(* SlackToJira.process                                                     *)
(***************************************************************************)
\* project = project_key or self.jira_project
Project == Or(project_key, JIRA_PROJECT_KEY)

\* issue_type or analysis.get("issue_type", self.default_issue_type)
FinalIssueType == Or(issue_type, Get(analysis, "issue_type", JIRA_ISSUE_TYPE))

\* the arguments of self.jira.create_issue
CallTitle == Get(analysis, "title", <<"Issue from Slack">>)

CallSummary == Get(analysis, "summary", Take(thread_content, DescriptionLimit))

CallPriority == Get(analysis, "priority", None)

CallDescription == Description(CallSummary, UrlString(slack_url))

\* the mutant: a dry run creates the issue all the same
WouldCreateIgnored(flag) == FALSE

\* if dry_run:
WouldCreateOnly(flag) == flag

\* the value process returns in a dry run
DryRunResult ==
    [dry_run |-> TRUE,
     would_create |->
         [project |-> Project,
          type |-> FinalIssueType,
          title |-> Get(analysis, "title", None),
          summary |-> Get(analysis, "summary", None),
          priority |-> Get(analysis, "priority", None)]]

\* the value process returns for the issue created
SuccessResult(issue) ==
    [success |-> TRUE,
     issue_key |-> issue.key,
     issue_url |-> JIRA_BASE_URL \o <<"/browse/">> \o issue.key,
     title |-> Get(analysis, "title", None),
     issue_type |-> FinalIssueType,
     priority |-> Get(analysis, "priority", None)]

\* what conversations.info may answer
ChannelResponses ==
    { [ok |-> TRUE, channel |-> [name |-> <<"general">>]],
      [ok |-> TRUE, channel |-> EmptyDict],
      [ok |-> TRUE],
      [ok |-> FALSE, error |-> <<"channel_not_found">>],
      [ok |-> FALSE] }

\* get_channel_info, given the response to its conversations.info request
get_channel_info(data) ==
    IF ~Get(data, "ok", FALSE)
    THEN Raise(Exception("Exception", <<"Failed to get channel info: ">>
                   \o Get(data, "error", <<"Unknown error">>)))
    ELSE Return(Get(data, "channel", EmptyDict))

\* the mutant: a failed lookup leaves the name it raised without
ChannelNameUnhandled(r) ==
    IF r.raised # NoError
    THEN None
    ELSE Get(r.value, "name", <<"unknown">>)

\* channel_name after the try block and its except, r being how
\* get_channel_info ended
ChannelName(r) ==
    IF r.raised # NoError
    THEN <<"unknown">>
    ELSE Get(r.value, "name", <<"unknown">>)

\* process, "Get channel info": the try block and its except
ChannelInfo ==
    /\ pc = "channel"
    /\ \E data \in ChannelResponses :
          /\ channel_log' = Append(channel_log, data)
          /\ channel_name' = ChannelName(get_channel_info(data))
    /\ pc' = "replies"
    /\ UNCHANGED <<slack_url, project_key, issue_type, dry_run, parsed, thread,
                   messages, cursor, replies_log, history_log, formatted,
                   user_cache, users_log, thread_content, analysis,
                   completion_log, issues, jira_log, result, error>>

\* the mutant: an empty thread is let through
NoMessagesIgnored(msgs) == FALSE

\* if not messages:
NoMessages(msgs) == msgs = <<>>

\* process, after get_thread_messages returned: if not messages: raise.
\* The locals of get_thread_messages and the record of its exchanges end here.
CheckMessages ==
    /\ pc = "fetched"
    /\ IF NoMessages(messages)
       THEN /\ pc' = "failed"
            /\ error' = Exception("Exception", <<"No messages found in thread">>)
       ELSE /\ pc' = "format"
            /\ UNCHANGED error
    /\ cursor' = None
    /\ replies_log' = <<>>
    /\ history_log' = <<>>
    /\ UNCHANGED <<slack_url, project_key, issue_type, dry_run, parsed,
                   channel_name, channel_log,
                   thread, messages, formatted, user_cache,
                   users_log, thread_content, analysis, completion_log, issues,
                   jira_log, result>>

\* process, "Analyze with Groq": self.ai.analyze_thread(thread_content, ..)
Analyze ==
    /\ pc = "analyze"
    /\ \E response \in CompletionResponses :
          LET r == analyze_thread(thread_content, response)
          IN  /\ completion_log' = Append(completion_log,
                     [content |-> Take(thread_content, ContentLimit),
                      channel |-> IF Truthy(channel_name) THEN channel_name
                                                          ELSE <<"Unknown">>,
                      response |-> response])
              /\ IF r.raised # NoError
                 THEN /\ error' = r.raised
                      /\ pc' = "failed"
                      /\ UNCHANGED analysis
                 ELSE /\ analysis' = r.value
                      /\ pc' = "prepare"
                      /\ UNCHANGED error
    /\ UNCHANGED <<slack_url, project_key, issue_type, dry_run, parsed,
                   channel_name, channel_log,
                   thread, messages, cursor, replies_log,
                   history_log, formatted, user_cache, users_log,
                   thread_content, issues, jira_log, result>>

\* process, if dry_run: the would-be issue is returned
DryRun ==
    /\ pc = "prepare"
    /\ WouldCreateOnly(dry_run)
    /\ result' = DryRunResult
    /\ pc' = "done"
    /\ UNCHANGED <<slack_url, project_key, issue_type, dry_run, parsed,
                   channel_name, channel_log,
                   thread, messages, cursor, replies_log,
                   history_log, formatted, user_cache, users_log,
                   thread_content, analysis, completion_log, issues, jira_log,
                   error>>

\* create_issue: a fresh connection and the creation with the full fields;
\* on success process returns the issue created
CreateFull ==
    /\ pc = "prepare"
    /\ ~WouldCreateOnly(dry_run)
    /\ LET fields == FullFields(Project, CallTitle, CallDescription,
                                FinalIssueType)
       IN  \/ /\ jira_log' = Append(jira_log, [op |-> "connect", ok |-> FALSE])
              /\ error' = Exception("JIRAError", <<"connection refused">>)
              /\ pc' = "failed"
              /\ UNCHANGED <<issues, result>>
           \/ /\ jira_log' = jira_log \o
                     <<[op |-> "connect", ok |-> TRUE],
                       [op |-> "create_issue", fields |-> fields,
                        raised |-> NoError]>>
              /\ issues' = Append(issues, NewIssue(fields))
              /\ result' = SuccessResult(IssueRef(NewIssue(fields)))
              /\ pc' = "done"
              /\ UNCHANGED error
           \/ \E msg \in TrackerErrors :
                 /\ jira_log' = jira_log \o
                        <<[op |-> "connect", ok |-> TRUE],
                          [op |-> "create_issue", fields |-> fields,
                           raised |-> Exception("JIRAError", msg)]>>
                 /\ IF FieldRestricted(msg)
                    THEN /\ pc' = "minimal"
                         /\ UNCHANGED error
                    ELSE /\ pc' = "failed"
                         /\ error' = Exception("JIRAError", msg)
                 /\ UNCHANGED <<issues, result>>
    /\ UNCHANGED <<slack_url, project_key, issue_type, dry_run, parsed,
                   channel_name, channel_log,
                   thread, messages, cursor, replies_log,
                   history_log, formatted, user_cache, users_log,
                   thread_content, analysis, completion_log>>

\* _create_minimal_issue: a fresh connection and the creation with the
\* project and the issue type only
CreateMinimal ==
    /\ pc = "minimal"
    /\ LET fields == MinimalFields(Project, FinalIssueType)
       IN  \/ /\ jira_log' = Append(jira_log, [op |-> "connect", ok |-> FALSE])
              /\ error' = Exception("JIRAError", <<"connection refused">>)
              /\ pc' = "failed"
              /\ UNCHANGED issues
           \/ /\ jira_log' = jira_log \o
                     <<[op |-> "connect", ok |-> TRUE],
                       [op |-> "create_issue", fields |-> fields,
                        raised |-> NoError]>>
              /\ issues' = Append(issues, NewIssue(fields))
              /\ pc' = "comment"
              /\ UNCHANGED error
           \/ \E msg \in TrackerErrors :
                 /\ jira_log' = jira_log \o
                        <<[op |-> "connect", ok |-> TRUE],
                          [op |-> "create_issue", fields |-> fields,
                           raised |-> Exception("JIRAError", msg)]>>
                 /\ error' = Exception("JIRAError", msg)
                 /\ pc' = "failed"
                 /\ UNCHANGED issues
    /\ UNCHANGED <<slack_url, project_key, issue_type, dry_run, parsed,
                   channel_name, channel_log,
                   thread, messages, cursor, replies_log,
                   history_log, formatted, user_cache, users_log,
                   thread_content, analysis, completion_log, result>>

\* _create_minimal_issue: jira.add_comment(issue, comment_text) on the issue
\* just created; on success process returns that issue
AddComment ==
    /\ pc = "comment"
    /\ LET n == Len(issues)
           body == CommentText(CallTitle, CallDescription, CallPriority)
       IN  \/ /\ jira_log' = Append(jira_log,
                     [op |-> "add_comment", issue |-> issues[n].key,
                      body |-> body, raised |-> NoError])
              /\ issues' = [issues EXCEPT
                     ![n].comments = Append(issues[n].comments, body)]
              /\ result' = SuccessResult(IssueRef(issues[n]))
              /\ pc' = "done"
              /\ UNCHANGED error
           \/ \E msg \in TrackerErrors :
                 /\ jira_log' = Append(jira_log,
                        [op |-> "add_comment", issue |-> issues[n].key,
                         body |-> body, raised |-> Exception("JIRAError", msg)])
                 /\ error' = Exception("JIRAError", msg)
                 /\ pc' = "failed"
                 /\ UNCHANGED <<issues, result>>
    /\ UNCHANGED <<slack_url, project_key, issue_type, dry_run, parsed,
                   channel_name, channel_log,
                   thread, messages, cursor, replies_log,
                   history_log, formatted, user_cache, users_log,
                   thread_content, analysis, completion_log>>

(***************************************************************************)
(* One run of process.                                                     *)
(***************************************************************************)
Urls ==
    { [path |-> <<"/", "archives", "/", "7", "/", "p", "7">>, query |-> <<>>],
      [path |-> <<"/", "archives", "/", "7", "/", "p", "7", "/", "7">>,
       query |-> <<"thread_ts", "=", "9", ".", "9">>],
      [path |-> <<"/", "7", "/", "p", "7">>, query |-> <<>>] }

Init ==
    /\ pc = "parse"
    /\ slack_url \in Urls
    /\ project_key \in {None, <<"OPS">>}
    /\ issue_type \in {None, <<"Story">>}
    /\ dry_run \in BOOLEAN
    /\ thread \in Threads(MaxRunThread, {<<"U1">>, None}, {<<"hi">>})
    /\ InitLocals

Next ==
    \/ ParseUrl
    \/ ChannelInfo
    \/ RepliesPage
    \/ SingleMessage
    \/ CheckMessages
    \/ FormatMessage
    \/ FormatJoin
    \/ Analyze
    \/ DryRun
    \/ CreateFull
    \/ CreateMinimal
    \/ AddComment

Spec == Init /\ [][Next]_vars

(***************************************************************************)
(* parse_slack_url alone, on every path within the bound.                  *)
(***************************************************************************)
InitUrl ==
    /\ pc = "parse"
    /\ slack_url \in [path : Paths, query : Queries]
    /\ project_key = None
    /\ issue_type = None
    /\ dry_run = FALSE
    /\ thread = <<>>
    /\ InitLocals

NextUrl == ParseUrl

SpecUrl == InitUrl /\ [][NextUrl]_vars

(***************************************************************************)
(* parse_slack_url on the URLs /archives/C1/<message id>, the message id   *)
(* being digits with or without a letter in front.                         *)
(***************************************************************************)
IdDigits == {"1", "7"}

IdPrefixes == {<<>>, <<"p">>, <<"x">>}

MessageIds ==
    {prefix \o digits : prefix \in IdPrefixes,
                        digits \in SeqsUpTo(IdDigits, MaxDigits)}

ArchivesPath(channel_id, message_id) ==
    <<"/", "archives", "/">> \o channel_id \o <<"/">> \o message_id

InitTs ==
    /\ pc = "parse"
    /\ slack_url \in [path : {ArchivesPath(<<"C1">>, m) : m \in MessageIds},
                      query : {<<>>}]
    /\ project_key = None
    /\ issue_type = None
    /\ dry_run = FALSE
    /\ thread = <<>>
    /\ InitLocals

NextTs == ParseUrl

SpecTs == InitTs /\ [][NextTs]_vars

(***************************************************************************)
(* Claims.                                                                 *)
(***************************************************************************)
\* the components of the path of the URL of this run
PathParts == Split(Strip(slack_url.path, {"/"}), "/")

\* C10: parse_slack_url accepts a URL only if its path is the archives
\* segment followed by exactly two components (channel id, message id);
\* every other path raises and leaves no (channel, timestamp) result.
C10_ExactlyTwoComponents ==
    /\ pc = "channel" =>
           /\ Len(PathParts) = 3
           /\ PathParts[1] = <<"archives">>
    /\ pc = "failed" => parsed = NoParse


\* the last conversations.replies exchange
LastReply == replies_log[Len(replies_log)]

\* the last conversations.replies response is non-ok
ReplyNotOk == replies_log # <<>> /\ ~LastReply.response.ok

\* the last conversations.replies response is non-ok with thread_not_found
ReplyThreadNotFound ==
    /\ ReplyNotOk
    /\ "error" \in DOMAIN LastReply.response
    /\ LastReply.response.error = <<"thread_not_found">>

\* C4: when every page is ok, get_thread_messages returns the concatenation
\* of the pages' messages, in page order and in within-page order, and each
\* request after the first carries the cursor of the response before it.
C4_PagesConcatenated ==
    /\ (pc = "fetched" /\ history_log = <<>>) =>
           messages = Served(replies_log)
    /\ \A i \in 2..Len(replies_log) :
           /\ "cursor" \in DOMAIN replies_log[i].request
           /\ replies_log[i].request.cursor =
                  replies_log[i - 1].response.response_metadata.next_cursor

\* three pages, none of them empty, returned as three messages or more
C4_Witness ==
    /\ pc = "fetched"
    /\ history_log = <<>>
    /\ Len(replies_log) >= 3
    /\ \A i \in 1..Len(replies_log) :
           Len(replies_log[i].response.messages) >= 1
    /\ Len(messages) >= 3

\* the one history lookup made is for the channel and timestamp of the fetch
OneHistoryLookup ==
    /\ Len(history_log) = 1
    /\ history_log[1].request.channel = parsed.channel_id
    /\ history_log[1].request.latest = parsed.thread_ts
    /\ history_log[1].request.oldest = parsed.thread_ts
    /\ history_log[1].request.limit = 1

\* any other non-ok replies response is fatal, with no history lookup
OtherErrorsFatal ==
    (ReplyNotOk /\ ~ReplyThreadNotFound) =>
        /\ pc = "failed"
        /\ history_log = <<>>

\* C5 as claimed: on thread_not_found, on any page, the fetcher does not
\* fail: it makes one history lookup for the same channel and timestamp and
\* returns that lookup's messages; any other non-ok replies response is fatal
\* and no history lookup is made.
C5_FallbackNeverFails ==
    /\ (ReplyThreadNotFound /\ pc # "history") =>
           /\ OneHistoryLookup
           /\ pc = "fetched"
           /\ messages = Get(history_log[1].response, "messages", <<>>)
    /\ OtherErrorsFatal

\* C5 as amended: on thread_not_found, on any page, the fetcher makes one
\* history lookup for the same channel and timestamp; when that lookup is ok
\* it returns exactly the lookup's messages, and when it is non-ok the fetch
\* fails with that error; any other non-ok replies response is fatal and no
\* history lookup is made.
C5_FallbackToHistory ==
    /\ (ReplyThreadNotFound /\ pc # "history") =>
           /\ OneHistoryLookup
           /\ IF history_log[1].response.ok
              THEN /\ pc = "fetched"
                   /\ messages = Get(history_log[1].response, "messages", <<>>)
              ELSE /\ pc = "failed"
                   /\ StartsWith(error.msg, <<"Failed to fetch message: ">>)
    /\ OtherErrorsFatal

\* thread_not_found on a later page, after messages were accumulated, and the
\* lookup's one message returned
C5_Witness ==
    /\ ReplyThreadNotFound
    /\ Len(replies_log) >= 2
    /\ Len(Served(replies_log)) >= 2
    /\ pc = "fetched"
    /\ Len(messages) = 1

\* the lookup made for a user (the first one, should there be several)
FirstLookup(user_id) ==
    users_log[CHOOSE i \in 1..Len(users_log) :
                  /\ users_log[i].user = user_id
                  /\ \A j \in 1..(i - 1) : users_log[j].user # user_id]

\* C6: within one format_messages call get_user_info is invoked at most once
\* per author id and once for each id that has appeared, every message is
\* rendered with the name its author's first lookup resolved, and the blocks
\* are in the order of the messages.
C6_OneLookupPerAuthor ==
    /\ \A i, j \in 1..Len(users_log) :
           users_log[i].user = users_log[j].user => i = j
    /\ {users_log[i].user : i \in 1..Len(users_log)} =
           {UserId(messages[k]) : k \in 1..Len(formatted)}
    /\ \A k \in 1..Len(formatted) :
           formatted[k] =
               Block(messages[k], FirstLookup(UserId(messages[k])).info.real_name)
    /\ pc = "analyze" =>
           /\ Len(formatted) = Len(messages)
           /\ thread_content = Join(formatted, <<"\n">>)

\* three messages rendered, the first and the last of them by one author,
\* another author in between
C6_Witness ==
    /\ pc = "analyze"
    /\ Len(messages) >= 3
    /\ UserId(messages[1]) = UserId(messages[3])
    /\ UserId(messages[1]) # UserId(messages[2])
    /\ Len(users_log) = 2
    /\ formatted[1] # formatted[3]

\* the draft analyze_thread returned for the completion request of this run
ReturnedDraft ==
    analyze_thread(completion_log[1].content, completion_log[1].response).value

\* C1: a dry run never calls the tracker, and once the thread is fetched
\* and summarized it returns dry_run = True with the title, summary and
\* priority of the draft analyze_thread returned.
C1_DryRunCreatesNothing ==
    /\ dry_run => (jira_log = <<>> /\ issues = <<>>)
    /\ (dry_run /\ analysis # EmptyDict) =>
           /\ pc \in {"prepare", "done"}
           /\ analysis = ReturnedDraft
    /\ (dry_run /\ pc = "done") =>
           /\ result.dry_run = TRUE
           /\ result.would_create.title = ReturnedDraft.title
           /\ result.would_create.summary = ReturnedDraft.summary
           /\ result.would_create.priority =
                  Get(ReturnedDraft, "priority", None)

\* a dry run that ended with the model's own draft, its priority included
C1_Witness ==
    /\ dry_run
    /\ pc = "done"
    /\ messages # <<>>
    /\ result.would_create.title = <<"Login fails">>
    /\ result.would_create.priority = <<"Critical">>

\* C2: when process ends with a fatal error, at whatever stage, no issue
\* exists on the tracker as a result of the run.
C2_NoIssueOnFailure == pc = "failed" => issues = <<>>

NoMessagesFound == Exception("Exception", <<"No messages found in thread">>)

\* C3: an issue is created only if dry_run is false and the fetch returned a
\* message; a fetch that succeeds with zero messages ends the run with the
\* NoMessagesFound error, analyze_thread and create_issue not invoked.
C3_IssueOnlyFromMessages ==
    /\ [](/\ (issues # <<>>) => (~dry_run /\ messages # <<>>)
          /\ (pc \in {"format", "analyze", "prepare", "minimal", "comment",
                      "done"}) => messages # <<>>
          /\ (pc = "failed" /\ error = NoMessagesFound) =>
                 /\ messages = <<>>
                 /\ completion_log = <<>>
                 /\ jira_log = <<>>
                 /\ issues = <<>>)
    /\ [][(pc = "fetched" /\ messages = <<>>) =>
              (pc' = "failed" /\ error' = NoMessagesFound)]_vars

\* a fetch that succeeded with no message ended a run that was no dry run
C3_Witness ==
    /\ pc = "failed"
    /\ error = NoMessagesFound
    /\ ~dry_run
    /\ thread # <<>>

\* the completion request was answered with a 2xx status
Completion2xx ==
    /\ completion_log # <<>>
    /\ completion_log[1].response.status_code \in 200..299

\* the fallback draft, as the claim describes it
IsFallbackDraft(draft) ==
    /\ draft.issue_type = <<"Task">>
    /\ draft.priority = <<"Major">>
    /\ StartsWith(draft.title, <<"Issue from Slack: ">>)

\* C7: on a 2xx completion response, whatever its body, analyze_thread does
\* not raise: it returns the model's draft when that has a title and a
\* summary, and the fallback draft (Task, Major, "Issue from Slack: ..")
\* otherwise.
C7_NeverRaisesOn2xx ==
    Completion2xx =>
        /\ error.type \notin {"Exception", "JSONDecodeError", "KeyError",
                              "IndexError", "TypeError"}
        /\ analysis # EmptyDict
        /\ \/ IsFallbackDraft(analysis)
           \/ /\ "title" \in DOMAIN analysis
              /\ "summary" \in DOMAIN analysis

\* a message names a field restriction
RecognizedRestriction(msg) ==
    \/ InStr(<<"not on the appropriate screen">>, msg)
    \/ InStr(<<"cannot be set">>, msg)

\* the full-field creation was attempted and failed
FullCreationFailed ==
    /\ Len(jira_log) >= 2
    /\ jira_log[2].op = "create_issue"
    /\ jira_log[2].raised # NoError

\* C8: after a full-field creation that failed on a field restriction and
\* the minimal creation (project key and issue type only) that followed,
\* create_issue adds one comment to that issue (the title as a header, the
\* description, the Suggested Priority line iff a priority was supplied) and
\* returns its key; exactly one issue exists afterwards.
C8_MinimalIssueCommented ==
    (/\ FullCreationFailed
     /\ RecognizedRestriction(jira_log[2].raised.msg)
     /\ issues # <<>>
     /\ pc # "comment") =>
        /\ Len(issues) = 1
        /\ issues[1].fields = MinimalFields(Project, FinalIssueType)
        /\ Len(issues[1].comments) = 1
        /\ StartsWith(issues[1].comments[1],
                      <<"h3. ">> \o CallTitle \o <<"\n", "\n">> \o CallDescription)
        /\ InStr(<<"*Suggested Priority:* ">>, issues[1].comments[1])
               <=> Truthy(CallPriority)
        /\ pc = "done"
        /\ result.issue_key = issues[1].key

\* C9: a full-field creation that fails with an error other than a field
\* restriction ends create_issue with that same error, no further tracker
\* call made: no minimal creation, no comment, no issue.
C9_OtherErrorsPropagate ==
    (/\ FullCreationFailed
     /\ ~RecognizedRestriction(jira_log[2].raised.msg)) =>
        /\ pc = "failed"
        /\ error = jira_log[2].raised
        /\ Len(jira_log) = 2
        /\ issues = <<>>

\* the full creation was refused for want of permission
C9_Witness ==
    /\ FullCreationFailed
    /\ jira_log[2].raised.msg =
           <<"You do not have permission to create issues in this project.">>
    /\ pc = "failed"

\* the message id of the URL /archives/C1/<message id> of this run
UrlMessageId == Drop(slack_url.path, 5)

\* digits with a "." put in front of the last six of them
WithPoint(digits) ==
    [i \in 1..(Len(digits) + 1) |->
        IF i <= Len(digits) - 6 THEN digits[i]
        ELSE IF i = Len(digits) - 5 THEN "."
        ELSE digits[i - 1]]

\* C11: a URL /archives/<C>/<message id> is accepted and parsed to channel
\* id <C>; for a message id p<digits> the thread timestamp is <digits> with
\* one decimal point put six digits from the end when there are more than
\* six digits, and <digits> unchanged when there are six or fewer; a message
\* id that does not start with p is the thread timestamp verbatim.
C11_TimestampFromMessageId ==
    (pc # "parse" /\ UrlMessageId # <<>>) =>
        /\ pc = "channel"
        /\ parsed.channel_id = <<"C1">>
        /\ parsed.thread_ts =
               IF Head(UrlMessageId) = "p"
               THEN IF Len(Tail(UrlMessageId)) > 6
                    THEN WithPoint(Tail(UrlMessageId))
                    ELSE Tail(UrlMessageId)
               ELSE UrlMessageId

\* p1771177 was parsed to 1.771177
C11_Witness ==
    /\ pc = "channel"
    /\ UrlMessageId = <<"p", "1", "7", "7", "1", "1", "7", "7">>
    /\ parsed.thread_ts = <<"1", ".", "7", "7", "1", "1", "7", "7">>

\* the conversations.info lookup of this run was made and failed
ChannelLookupFailed ==
    /\ channel_log # <<>>
    /\ ~Get(channel_log[1], "ok", FALSE)

\* the run failed in the channel lookup
FailedInChannelLookup ==
    /\ pc = "failed"
    /\ StartsWith(error.msg, <<"Failed to get channel info: ">>)

\* C12: a failed channel-name lookup never aborts process: the channel
\* name is "unknown", no error of the lookup ends the run, the run goes on
\* to the thread fetch, and the summarization request, once made, names the
\* channel "unknown"; one lookup is made in a run, whatever its answer.
C12_LookupFailureNotFatal ==
    /\ Len(channel_log) <= 1
    /\ ~FailedInChannelLookup
    /\ (pc \notin {"parse", "channel", "failed"}) => Len(channel_log) = 1
    /\ ChannelLookupFailed =>
           /\ channel_name = <<"unknown">>
           /\ pc \notin {"parse", "channel"}
           /\ completion_log # <<>> =>
                  completion_log[1].channel = <<"unknown">>

\* an issue was created in a run whose channel lookup had failed
C12_Witness ==
    /\ ChannelLookupFailed
    /\ channel_log[1] = [ok |-> FALSE, error |-> <<"channel_not_found">>]
    /\ pc = "done"
    /\ issues # <<>>
    /\ result.success

\* an ok conversations.replies response that carries a non-empty cursor
MorePages(response) ==
    /\ "ok" \in DOMAIN response
    /\ response.ok
    /\ "response_metadata" \in DOMAIN response
    /\ "next_cursor" \in DOMAIN response.response_metadata
    /\ response.response_metadata.next_cursor \notin {<<>>, None}

\* the pagination loop is over
LoopEnded == pc \in {"history", "fetched", "failed"}

\* the loop asks again exactly when the response before had more pages
LoopFollowsCursor ==
    /\ \A i \in 1..(Len(replies_log) - 1) :
           MorePages(replies_log[i].response)
    /\ replies_log = <<>> => pc = "replies"
    /\ replies_log # <<>> => (LoopEnded <=> ~MorePages(LastReply.response))
    /\ pc = "replies" => ENABLED RepliesPage

\* C13: the pagination loop of get_thread_messages makes one request per
\* page and stops at the first conversations.replies response that is non-ok
\* or has no next_cursor or an empty one: no request follows such a
\* response, and after a response with a non-empty cursor (the same cursor
\* as before included, and whatever the number of pages so far) the loop is
\* still asking; with a server that ends up sending such a response the call
\* comes to its end, returning or raising.
C13_LoopEndsWithCursor ==
    /\ []LoopFollowsCursor
    /\ <>(pc \in {"fetched", "failed"})

\* the same cursor came twice, the loop asked a third time, and the call
\* returned on the first response without cursor
C13_Witness ==
    /\ pc = "fetched"
    /\ Len(replies_log) = 3
    /\ MorePages(replies_log[1].response)
    /\ MorePages(replies_log[2].response)
    /\ replies_log[1].response.response_metadata.next_cursor =
           replies_log[2].response.response_metadata.next_cursor
    /\ ~MorePages(replies_log[3].response)
====
